---- MODULE Spec2Model ----
(***************************************************************************)
(* Model of src/src/prime_tools.rs: PrimeTools<T> (a growing cache of      *)
(* primes with the queries built on it) and PrimeIterator.  T is modelled  *)
(* as an unsigned integer type without a width (a big unsigned integer).   *)
(* Each public method is one action; the methods themselves are operators  *)
(* that take the cache and the argument and give the cache after the call  *)
(* together with how the call ended: a returned value, a panic (an index   *)
(* past the end of the Vec), or a loop that never exits.                   *)
(***************************************************************************)
EXTENDS Integers, Sequences, FiniteSets, TLC

\* Largest value passed to is_prime / prime_factorization / factors / ...
MaxN == 70
\* Largest index passed to get_prime
MaxIdx == 6

VARIABLES primes, pos, producer, op, arg, outcome, result

vars == <<primes, pos, producer, op, arg, outcome, result>>

\* The PrimeIterator values a caller creates, one after the other: a
\* PrimeIterator holds &mut PrimeTools, so at most one is usable at a time
Producers == {1, 2}

\* pos when no PrimeIterator borrows the PrimeTools
NoProducer == -1
\* result when the call did not return
NoValue == -1

----------------------------------------------------------------------------
\* Library operations of T and of the std collections

\* num::integer::Roots::sqrt on an unsigned value: the floor of the square root
Isqrt(n) == CHOOSE r \in 0..n : r * r <= n /\ (r + 1) * (r + 1) > n

\* num::pow(base, exp)
RECURSIVE Pow(_, _)
Pow(base, exp) == IF exp = 0 THEN 1 ELSE base * Pow(base, exp - 1)

\* BTreeMap::insert: adds the key, or replaces the value of a key already there
Insert(map, k, v) == [x \in (DOMAIN map) \cup {k} |-> IF x = k THEN v ELSE map[x]]

\* BTreeMap::iter / into_iter order: the keys, smallest first
RECURSIVE SortedKeys(_)
SortedKeys(S) ==
    IF S = {} THEN << >>
    ELSE LET mn == CHOOSE x \in S : \A y \in S : x <= y
         IN  <<mn>> \o SortedKeys(S \ {mn})

Range(s) == {s[i] : i \in DOMAIN s}

\* How a call ended
Ok(ps, v) == [primes |-> ps, kind |-> "ok", val |-> v]
Panic(ps) == [primes |-> ps, kind |-> "panic", val |-> NoValue]
Hang(ps)  == [primes |-> ps, kind |-> "hang", val |-> NoValue]

----------------------------------------------------------------------------
\* PrimeTools

\* PrimeTools::new: one = 1, two = one + one, three = one + two
new == LET one == 1
           two == one + one
           three == one + two
       IN  <<two, three>>

\* The loop of add_prime: the first candidate, stepping by two, that no
\* cached prime divides
RECURSIVE next_prime_loop(_, _)
next_prime_loop(ps, next_prime) ==
    IF \A p \in Range(ps) : next_prime % p # 0
    THEN next_prime
    ELSE next_prime_loop(ps, next_prime + 2)

\* A variant of add_prime that tests the candidate against the first cached
\* prime only
add_prime_first_only(ps) ==
    LET RECURSIVE loop(_)
        loop(c) == IF c % ps[1] # 0 THEN c ELSE loop(c + 2)
    IN  Append(ps, loop(ps[Len(ps)] + 2))

\* PrimeTools::add_prime
add_prime(ps) == Append(ps, next_prime_loop(ps, ps[Len(ps)] + 2))

\* PrimeTools::fill_n_primes: while self.primes.len() < n
RECURSIVE fill_n_primes(_, _)
fill_n_primes(ps, n) ==
    IF Len(ps) < n THEN fill_n_primes(add_prime(ps), n) ELSE ps


\* A variant of fill_till_n that keeps the cache at three entries by evicting
\* the smallest one
RECURSIVE fill_till_n_evicting(_, _)
fill_till_n_evicting(ps, n) ==
    IF ps[Len(ps)] < n
    THEN LET grown == add_prime(ps)
         IN  fill_till_n_evicting(IF Len(grown) > 3 THEN Tail(grown) ELSE grown, n)
    ELSE ps

\* PrimeTools::fill_till_n: while self.primes.last() < n
RECURSIVE fill_till_n(_, _)
fill_till_n(ps, n) ==
    IF ps[Len(ps)] < n THEN fill_till_n(add_prime(ps), n) ELSE ps

\* PrimeTools::get_prime: &self.primes[n] with n counted from 0
get_prime(ps, n) ==
    LET ps2 == fill_n_primes(ps, n)
    IN  IF n + 1 > Len(ps2) THEN Panic(ps2) ELSE Ok(ps2, ps2[n + 1])

\* PrimeTools::is_prime: the first thing read is self.primes[self.primes.len()]
is_prime(ps, n) ==
    LET idx == Len(ps) + 1
    IN  IF idx > Len(ps) THEN Panic(ps)
        ELSE IF ps[idx] >= n
             THEN Ok(ps, n \in Range(ps))
             ELSE LET ps2 == fill_till_n(ps, Isqrt(n))
                  IN  Ok(ps2, \A p \in Range(ps2) : n % p # 0)


\* A variant of divide_out that divides by p once only (an if where the
\* source has a while)
divide_out_once(m, p, exp) == [m |-> m, exp |-> exp]

\* The inner loop of prime_factorization (lines 49-52), m > 0
RECURSIVE divide_out(_, _, _)
divide_out(m, p, exp) ==
    IF m % p = 0 THEN divide_out(m \div p, p, exp + 1)
    ELSE [m |-> m, exp |-> exp]


\* A variant of scan that records the remainder at the break without testing
\* m != 1
RECURSIVE scan_records_one(_, _, _, _, _)
scan_records_one(ps, k, m, sqrt_m, prime_factors) ==
    IF k > Len(ps) THEN Panic(ps)
    ELSE
      LET p == ps[k]
      IN  IF m % p = 0 /\ m = 0 THEN Hang(ps)
          ELSE
            LET divides == (m % p = 0)
                d   == IF divides THEN divide_out(m \div p, p, 1)
                                  ELSE [m |-> m, exp |-> 0]
                pf2 == IF divides THEN Insert(prime_factors, p, d.exp)
                                  ELSE prime_factors
                sq2 == IF divides THEN Isqrt(d.m) ELSE sqrt_m
            IN  IF p > sq2
                THEN Ok(ps, Insert(pf2, d.m, 1))
                ELSE scan_records_one(ps, k + 1, d.m, sq2, pf2)

\* The for loop of prime_factorization over (0..).map(|k| &self.primes[k]);
\* k is the index counted from 1.  With m = 0 the inner while loop never
\* exits (0 % p == 0 and 0 / p == 0), which is the "hang" outcome.
RECURSIVE scan(_, _, _, _, _)
scan(ps, k, m, sqrt_m, prime_factors) ==
    IF k > Len(ps) THEN Panic(ps)
    ELSE
      LET p == ps[k]
      IN  IF m % p = 0 /\ m = 0 THEN Hang(ps)
          ELSE
            LET divides == (m % p = 0)
                d   == IF divides THEN divide_out(m \div p, p, 1)
                                  ELSE [m |-> m, exp |-> 0]
                pf2 == IF divides THEN Insert(prime_factors, p, d.exp)
                                  ELSE prime_factors
                sq2 == IF divides THEN Isqrt(d.m) ELSE sqrt_m
            IN  IF p > sq2
                THEN Ok(ps, IF d.m # 1 THEN Insert(pf2, d.m, 1) ELSE pf2)
                ELSE scan(ps, k + 1, d.m, sq2, pf2)


\* The same for loop, giving what the locals hold when `p > &sqrt_m` is found
\* true (line 58), before the remainder is recorded: the prime p, the
\* remainder m and the map so far
RECURSIVE scan_stop(_, _, _, _, _)
scan_stop(ps, k, m, sqrt_m, prime_factors) ==
    IF k > Len(ps) THEN Panic(ps)
    ELSE
      LET p == ps[k]
      IN  IF m % p = 0 /\ m = 0 THEN Hang(ps)
          ELSE
            LET divides == (m % p = 0)
                d   == IF divides THEN divide_out(m \div p, p, 1)
                                  ELSE [m |-> m, exp |-> 0]
                pf2 == IF divides THEN Insert(prime_factors, p, d.exp)
                                  ELSE prime_factors
                sq2 == IF divides THEN Isqrt(d.m) ELSE sqrt_m
            IN  IF p > sq2
                THEN [kind |-> "ok", p |-> p, m |-> d.m, sqrt_m |-> sq2,
                      prime_factors |-> pf2]
                ELSE scan_stop(ps, k + 1, d.m, sq2, pf2)

\* PrimeTools::prime_factorization
prime_factorization(ps, n) ==
    LET sqrt_m == Isqrt(n)
        ps2 == fill_till_n(ps, sqrt_m)
    IN  scan(ps2, 1, n, sqrt_m, << >>)


\* A variant of odometer_step without the break after an increment: the pass
\* goes on to the next primes
RECURSIVE odometer_step_no_break(_, _, _, _, _)
odometer_step_no_break(pf, keys, i, current_factor, current_exps) ==
    IF i > Len(keys) THEN [cf |-> current_factor, exps |-> current_exps]
    ELSE
      LET prime == keys[i]
          exp == pf[prime]
      IN  IF current_exps[i] < exp
          THEN odometer_step_no_break(pf, keys, i + 1,
                                      current_factor * prime,
                                      [current_exps EXCEPT ![i] = @ + 1])
          ELSE odometer_step_no_break(pf, keys, i + 1,
                                      current_factor \div Pow(prime, exp),
                                      [current_exps EXCEPT ![i] = 0])

\* The for loop of factors over prime_factors.iter().zip(current_exps)
RECURSIVE odometer_step(_, _, _, _, _)
odometer_step(pf, keys, i, current_factor, current_exps) ==
    IF i > Len(keys) THEN [cf |-> current_factor, exps |-> current_exps]
    ELSE
      LET prime == keys[i]
          exp == pf[prime]
      IN  IF current_exps[i] < exp
          THEN [cf |-> current_factor * prime,
                exps |-> [current_exps EXCEPT ![i] = @ + 1]]
          ELSE odometer_step(pf, keys, i + 1,
                             current_factor \div Pow(prime, exp),
                             [current_exps EXCEPT ![i] = 0])

\* The outer loop of factors
RECURSIVE odometer(_, _, _, _, _)
odometer(pf, keys, current_factor, current_exps, fs) ==
    LET fs2 == fs \cup {current_factor}
        st == odometer_step(pf, keys, 1, current_factor, current_exps)
    IN  IF st.cf = 1 THEN fs2
        ELSE odometer(pf, keys, st.cf, st.exps, fs2)


\* TRUE iff every division by prime^exp in one pass of the for loop of
\* factors leaves no remainder
RECURSIVE odometer_step_exact(_, _, _, _, _)
odometer_step_exact(pf, keys, i, current_factor, current_exps) ==
    IF i > Len(keys) THEN TRUE
    ELSE
      LET prime == keys[i]
          exp == pf[prime]
      IN  IF current_exps[i] < exp THEN TRUE
          ELSE /\ current_factor % Pow(prime, exp) = 0
               /\ odometer_step_exact(pf, keys, i + 1,
                                      current_factor \div Pow(prime, exp),
                                      [current_exps EXCEPT ![i] = 0])

\* The outer loop of factors, giving current_factor and current_exps at the
\* top of each iteration (at each insert) in order
RECURSIVE odometer_trace(_, _, _, _, _)
odometer_trace(pf, keys, current_factor, current_exps, tr) ==
    LET tr2 == Append(tr, [cf |-> current_factor, exps |-> current_exps])
        st == odometer_step(pf, keys, 1, current_factor, current_exps)
    IN  IF st.cf = 1 THEN tr2
        ELSE odometer_trace(pf, keys, st.cf, st.exps, tr2)

\* PrimeTools::factors
factors(ps, n) ==
    LET r == prime_factorization(ps, n)
    IN  IF r.kind # "ok" THEN r
        ELSE LET keys == SortedKeys(DOMAIN r.val)
             IN  Ok(r.primes,
                    odometer(r.val, keys, 1, [i \in 1..Len(keys) |-> 0], {}))

\* The loop of factor_sum
RECURSIVE sum_loop(_, _, _, _)
sum_loop(pf, keys, i, sum) ==
    IF i > Len(keys) THEN sum
    ELSE LET prime == keys[i]
             exp == pf[prime]
         IN  sum_loop(pf, keys, i + 1,
                      (sum * (Pow(prime, exp + 1) - 1)) \div (prime - 1))

\* PrimeTools::factor_sum
factor_sum(ps, n) ==
    LET r == prime_factorization(ps, n)
    IN  IF r.kind # "ok" THEN r
        ELSE Ok(r.primes, sum_loop(r.val, SortedKeys(DOMAIN r.val), 1, 1))


\* T as a fixed-width unsigned type of Width bits (u8)
Width == 8
MaxT == 2 ^ Width - 1

\* An arithmetic panic ("attempt to multiply with overflow")
Overflow(ps) == [primes |-> ps, kind |-> "overflow", val |-> NoValue]

\* The loop of factor_sum with T of Width bits.  A product or difference
\* outside 0..MaxT panics when the build has overflow checks (checks = TRUE)
\* and wraps modulo 2^Width when it has none.  num::pow multiplies by
\* squaring and none of its products exceeds its result, so it overflows
\* exactly when prime^(exp+1) does.
RECURSIVE sum_loop_w(_, _, _, _, _)
sum_loop_w(pf, keys, i, sum, checks) ==
    IF i > Len(keys) THEN [kind |-> "ok", val |-> sum]
    ELSE
      LET prime == keys[i]
          exp == pf[prime]
          pw == Pow(prime, exp + 1)
          pw_w == pw % (MaxT + 1)
          minus == (pw_w - 1) % (MaxT + 1)
          times == sum * minus
      IN  IF checks /\ (pw > MaxT \/ pw_w - 1 < 0 \/ times > MaxT)
          THEN [kind |-> "overflow", val |-> NoValue]
          ELSE sum_loop_w(pf, keys, i + 1,
                          (times % (MaxT + 1)) \div (prime - 1), checks)

\* PrimeTools::factor_sum with T of Width bits
factor_sum_w(ps, n, checks) ==
    LET r == prime_factorization(ps, n)
    IN  IF r.kind # "ok" THEN r
        ELSE LET s == sum_loop_w(r.val, SortedKeys(DOMAIN r.val), 1, 1, checks)
             IN  IF s.kind = "ok" THEN Ok(r.primes, s.val)
                 ELSE Overflow(r.primes)

\* The loop of factor_count
RECURSIVE count_loop(_, _, _, _)
count_loop(pf, keys, i, count) ==
    IF i > Len(keys) THEN count
    ELSE count_loop(pf, keys, i + 1, count * (pf[keys[i]] + 1))

\* PrimeTools::factor_count
factor_count(ps, n) ==
    LET r == prime_factorization(ps, n)
    IN  IF r.kind # "ok" THEN r
        ELSE Ok(r.primes, count_loop(r.val, SortedKeys(DOMAIN r.val), 1, 1))

----------------------------------------------------------------------------
\* The state machine

Init ==
    /\ primes = new
    /\ pos = NoProducer
    /\ producer = 0
    /\ op = "new"
    /\ arg = 0
    /\ outcome = "ok"
    /\ result = NoValue

\* A panic unwinds out of the caller and a hang never returns: no later call
Running == outcome = "ok"

\* A call on the PrimeTools itself; it ends the borrow of any PrimeIterator
Finish(name, n, r) ==
    /\ primes' = r.primes
    /\ outcome' = r.kind
    /\ result' = r.val
    /\ op' = name
    /\ arg' = n
    /\ pos' = NoProducer
    /\ producer' = 0

Call_get_prime ==
    /\ Running
    /\ \E n \in 0..MaxIdx : Finish("get_prime", n, get_prime(primes, n))

Call_is_prime ==
    /\ Running
    /\ \E n \in 0..MaxN : Finish("is_prime", n, is_prime(primes, n))

Call_prime_factorization ==
    /\ Running
    /\ \E n \in 0..MaxN :
          Finish("prime_factorization", n, prime_factorization(primes, n))

Call_factors ==
    /\ Running
    /\ \E n \in 0..MaxN : Finish("factors", n, factors(primes, n))

Call_factor_sum ==
    /\ Running
    /\ \E n \in 0..MaxN : Finish("factor_sum", n, factor_sum(primes, n))

Call_factor_count ==
    /\ Running
    /\ \E n \in 0..MaxN : Finish("factor_count", n, factor_count(primes, n))


\* factor_sum on a PrimeTools<T> with T of Width bits, in either build
Call_factor_sum_w ==
    /\ Running
    /\ \E n \in 1..MaxT, checks \in BOOLEAN :
          Finish("factor_sum", n, factor_sum_w(primes, n, checks))

\* PrimeTools::iter_primes: PrimeIterator { pt: self, pos: 0 }
iter_primes ==
    /\ Running
    /\ \E i \in Producers : producer' = i
    /\ pos' = 0
    /\ op' = "iter_primes"
    /\ arg' = 0
    /\ result' = NoValue
    /\ UNCHANGED <<primes, outcome>>

\* PrimeIterator::next: self.pos += 1; Some(get_prime(self.pos - 1).clone())
next ==
    /\ Running
    /\ pos # NoProducer
    /\ pos <= MaxIdx
    /\ LET r == get_prime(primes, (pos + 1) - 1)
       IN  /\ pos' = pos + 1
           /\ primes' = r.primes
           /\ outcome' = r.kind
           /\ result' = r.val
           /\ op' = "next"
           /\ arg' = pos + 1
           /\ UNCHANGED producer

Next ==
    \/ Call_get_prime
    \/ Call_is_prime
    \/ Call_prime_factorization
    \/ Call_factors
    \/ Call_factor_sum
    \/ Call_factor_count
    \/ iter_primes
    \/ next


\* The PrimeTools<T> with T of Width bits: the calls that reach factor_sum
NextW ==
    \/ Call_prime_factorization
    \/ Call_factor_sum_w

SpecW == Init /\ [][NextW]_vars

Spec == Init /\ [][Next]_vars

----------------------------------------------------------------------------
\* Number theory the claims are stated in

IsPrimeNumber(n) == n >= 2 /\ \A d \in 2..(n - 1) : n % d # 0

Divisors(n) == {d \in 1..n : n % d = 0}

RECURSIVE SumOf(_)
SumOf(S) == IF S = {} THEN 0
            ELSE LET x == CHOOSE y \in S : TRUE IN x + SumOf(S \ {x})

\* The prime at index n counted from 0; it is below (n + 2)^2
NthPrime(n) ==
    CHOOSE p \in 2..((n + 2) * (n + 2)) :
        /\ IsPrimeNumber(p)
        /\ Cardinality({q \in 2..(p - 1) : IsPrimeNumber(q)}) = n

RECURSIVE ProductOf(_, _)
ProductOf(map, keys) ==
    IF keys = {} THEN 1
    ELSE LET k == CHOOSE y \in keys : TRUE
         IN  Pow(k, map[k]) * ProductOf(map, keys \ {k})


\* TRUE iff every division by (prime - 1) in the loop of factor_sum leaves
\* no remainder
RECURSIVE sum_loop_exact(_, _, _, _)
sum_loop_exact(pf, keys, i, sum) ==
    IF i > Len(keys) THEN TRUE
    ELSE LET prime == keys[i]
             exp == pf[prime]
             num == sum * (Pow(prime, exp + 1) - 1)
         IN  /\ num % (prime - 1) = 0
             /\ sum_loop_exact(pf, keys, i + 1, num \div (prime - 1))

----------------------------------------------------------------------------
\* Claims

\* C1: get_prime(n) grows the cache to at least n+1 entries and returns the
\* entry at index n, the (n+1)-th smallest prime; it never reads a cache
\* position that does not exist.
C1_GetPrimeReturnsNthPrime ==
    op = "get_prime" =>
        /\ outcome = "ok"
        /\ Len(primes) >= arg + 1
        /\ result = NthPrime(arg)

\* C2: the k-th call of next() on a producer returns Some(the prime at index
\* k-1), never None and never a failure (arg is k).
C2_NextYieldsKthPrime ==
    op = "next" =>
        /\ outcome = "ok"
        /\ result = NthPrime(arg - 1)

\* C3: is_prime(n) returns a boolean that is true exactly when n is prime.
C3_IsPrimeCorrect ==
    op = "is_prime" =>
        /\ outcome = "ok"
        /\ result \in BOOLEAN
        /\ (result <=> IsPrimeNumber(arg))

\* C4: for n >= 2, prime_factorization(n) returns a map whose keys are
\* primes, whose exponents are >= 1 and whose product of key^exponent is n.
C4_FactorizationCorrect ==
    (op = "prime_factorization" /\ arg >= 2) =>
        /\ outcome = "ok"
        /\ \A k \in DOMAIN result : IsPrimeNumber(k) /\ result[k] >= 1
        /\ ProductOf(result, DOMAIN result) = arg

\* C5: for n >= 1, prime_factorization(n) runs to completion and returns: the
\* scan reaches a prime above the square root of the remainder before it
\* reads past the last cache entry, and it does not loop forever.
C5_FactorizationReturns ==
    (op = "prime_factorization" /\ arg >= 1) => outcome = "ok"

\* C6: for n >= 1, factors(n) returns exactly the set of positive divisors
\* of n.
C6_FactorsAreDivisors ==
    (op = "factors" /\ arg >= 1) =>
        /\ outcome = "ok"
        /\ result = Divisors(arg)

\* C7: for n >= 1, factor_sum(n) equals the sum of the positive divisors of
\* n, and each division by (p - 1) it performs is exact.
C7_FactorSumIsDivisorSum ==
    (op = "factor_sum" /\ arg >= 1) =>
        /\ outcome = "ok"
        /\ result = SumOf(Divisors(arg))
        /\ LET pf == prime_factorization(primes, arg).val
           IN  sum_loop_exact(pf, SortedKeys(DOMAIN pf), 1, 1)

\* C8: for n >= 1, factor_count(n) equals the number of positive divisors
\* of n.
C8_FactorCountIsDivisorCount ==
    (op = "factor_count" /\ arg >= 1) =>
        /\ outcome = "ok"
        /\ result = Cardinality(Divisors(arg))

\* C9: in every reachable state the cache starts with 2 and 3, is strictly
\* increasing, contains only primes and holds every prime up to its largest
\* entry (so each extension appended the smallest prime above the last one).
C9_CacheInvariant ==
    /\ Len(primes) >= 2
    /\ primes[1] = 2
    /\ primes[2] = 3
    /\ \A i \in 1..(Len(primes) - 1) : primes[i] < primes[i + 1]
    /\ \A i \in 1..Len(primes) : IsPrimeNumber(primes[i])
    /\ \A q \in 2..primes[Len(primes)] :
          IsPrimeNumber(q) => q \in Range(primes)

\* C9 witness: calls that returned have extended the cache past the
\* composite candidate 9
C9_Witness ==
    /\ outcome = "ok"
    /\ primes = <<2, 3, 5, 7, 11>>

\* C10: is_prime(n) is true if and only if factor_count(n) = 2, whichever
\* of the two was called.
C10_IsPrimeIffTwoDivisors ==
    /\ op = "is_prime" =>
          /\ outcome = "ok"
          /\ (result <=> LET c == factor_count(primes, arg)
                         IN  c.kind = "ok" /\ c.val = 2)
    /\ op = "factor_count" =>
          LET b == is_prime(primes, arg)
          IN  /\ b.kind = "ok"
              /\ (b.val <=> (outcome = "ok" /\ result = 2))

\* C11: for n = 1, from every reachable cache state, prime_factorization(1)
\* returns the empty map, factors(1) returns {1}, factor_sum(1) returns 1 and
\* factor_count(1) returns 1, and each of the four returns.
C11_OneIsTrivial ==
    arg = 1 =>
        /\ op = "prime_factorization" => (outcome = "ok" /\ DOMAIN result = {})
        /\ op = "factors" => (outcome = "ok" /\ result = {1})
        /\ op = "factor_sum" => (outcome = "ok" /\ result = 1)
        /\ op = "factor_count" => (outcome = "ok" /\ result = 1)

\* C11 witness: factors(1) has returned on a cache that has grown
C11_Witness ==
    /\ op = "factors"
    /\ arg = 1
    /\ outcome = "ok"
    /\ Len(primes) > 2

\* C12: whichever of two producers over the same cache takes a next step,
\* and whatever the other did before and however far the cache has grown,
\* the value it yields at position i is the prime at index i (arg is the
\* number of the call, i + 1); at position 5 that is 13.
C12_ProducersYieldByPosition ==
    \A i \in Producers :
        (op = "next" /\ producer = i) =>
            /\ outcome = "ok"
            /\ result = NthPrime(pos - 1)
            /\ (pos - 1 = 5 => result = 13)

\* C13: for an input n < 1 (n = 0 for an unsigned type), prime_factorization
\* and the operations derived from it end with a reported InvalidInput
\* failure: they neither return a value nor run without end.
C13_ZeroIsInvalidInput ==
    (op \in {"prime_factorization", "factors", "factor_sum", "factor_count"}
        /\ arg < 1) =>
        /\ outcome # "ok"
        /\ outcome # "hang"
        /\ outcome = "invalid_input"

IsPrefix(s, t) == Len(s) <= Len(t) /\ \A i \in 1..Len(s) : s[i] = t[i]

\* C14: across every public operation the cache before the operation is a
\* prefix of the cache after it: the length never decreases and no entry is
\* removed, reordered or changed.
C14_CacheOnlyGrows == [][IsPrefix(primes, primes')]_vars

\* C14 witness: a factorization has returned after appending to the cache
C14_Witness ==
    /\ op = "prime_factorization"
    /\ outcome = "ok"
    /\ Len(primes) > Len(new)
    /\ arg < primes[Len(primes)] * primes[Len(primes)]
    /\ arg > primes[Len(primes) - 1] * primes[Len(primes) - 1]

\* C15: for n >= 1 the outcome of prime_factorization(n) (the returned map,
\* or a failure) is the same from every reachable cache state; here it is
\* compared with the outcome of the same call on the cache of new().
C15_FactorizationIgnoresCache ==
    (op = "prime_factorization" /\ arg >= 1) =>
        LET cold == prime_factorization(new, arg)
        IN  /\ outcome = cold.kind
            /\ (outcome = "ok" => result = cold.val)

\* C16: a call of is_prime(n) made when the largest cached entry already
\* exceeds n answers by membership of n in the cache and leaves the cache
\* unchanged.
C16_FastPathIsLookup ==
    [][(op' = "is_prime" /\ primes[Len(primes)] > arg') =>
          /\ outcome' = "ok"
          /\ result' = (arg' \in Range(primes))
          /\ primes' = primes]_vars

\* The exponent of q in n, for n >= 1 and q >= 2
RECURSIVE Multiplicity(_, _)
Multiplicity(n, q) == IF n % q = 0 THEN 1 + Multiplicity(n \div q, q) ELSE 0

\* C17: in prime_factorization(n), n >= 1, when the scan stops because the
\* current prime p exceeds the integer square root of the remainder m, m is 1
\* or a prime not yet recorded, and every prime recorded so far has its full
\* multiplicity in n and no longer divides m; the map returned is the map at
\* the stop plus that remainder.
C17_StopLeavesOneOrPrime ==
    (op = "prime_factorization" /\ arg >= 1 /\ outcome = "ok") =>
        LET s == scan_stop(primes, 1, arg, Isqrt(arg), << >>)
        IN  /\ s.kind = "ok"
            /\ s.p > Isqrt(s.m)
            /\ s.sqrt_m = Isqrt(s.m)
            /\ \/ s.m = 1
               \/ IsPrimeNumber(s.m) /\ s.m \notin DOMAIN s.prime_factors
            /\ \A q \in DOMAIN s.prime_factors :
                  /\ s.prime_factors[q] = Multiplicity(arg, q)
                  /\ s.m % q # 0
            /\ result = IF s.m # 1 THEN Insert(s.prime_factors, s.m, 1)
                                   ELSE s.prime_factors

\* C17 witness: the scan of 12 has stopped with the remainder 3 after
\* recording 2 twice
C17_Witness ==
    /\ op = "prime_factorization"
    /\ arg = 12
    /\ outcome = "ok"
    /\ scan_stop(primes, 1, arg, Isqrt(arg), << >>).m = 3

\* Place of the prime q among the keys of a factorization, smallest first
Rank(pf, q) == Cardinality({r \in DOMAIN pf : r < q}) + 1

\* The number of exponent vectors over the keys below q, and over all keys
RECURSIVE Radix(_, _)
Radix(pf, keys) ==
    IF keys = {} THEN 1
    ELSE LET k == CHOOSE y \in keys : TRUE
         IN  (pf[k] + 1) * Radix(pf, keys \ {k})

\* The exponent of q in the j-th vector (j from 0) when the smallest prime's
\* exponent varies fastest
Digit(pf, j, q) ==
    (j \div Radix(pf, {r \in DOMAIN pf : r < q})) % (pf[q] + 1)

RECURSIVE ProductOfVector(_, _, _)
ProductOfVector(pf, keys, exps) ==
    IF keys = {} THEN 1
    ELSE LET k == CHOOSE y \in keys : TRUE
         IN  Pow(k, exps[Rank(pf, k)]) * ProductOfVector(pf, keys \ {k}, exps)


\* vec![0; len] as a tuple
RECURSIVE ZeroVector(_)
ZeroVector(len) == IF len = 0 THEN << >> ELSE Append(ZeroVector(len - 1), 0)

\* C18: in factors(n), n >= 1, with factorization {p_i: e_i}: at the top of
\* every loop iteration the running product is the product of p_i^c_i for
\* the current exponent vector c, 0 <= c_i <= e_i; every division on a reset
\* is exact; the first prime's exponent varies fastest; each exponent vector
\* is visited exactly once; and the loop stops after exactly
\* (e_1+1)*...*(e_k+1) insertions, when the product is back at 1.
C18_OdometerVisitsEveryVectorOnce ==
    (op = "factors" /\ arg >= 1 /\ outcome = "ok") =>
        LET fz == prime_factorization(primes, arg).val
            ks == SortedKeys(DOMAIN fz)
            zeros == ZeroVector(Len(ks))
            visits == odometer_trace(fz, ks, 1, zeros, << >>)
            last == visits[Len(visits)]
        IN  /\ Len(visits) = Radix(fz, DOMAIN fz)
            /\ \A j \in 1..Len(visits) :
                  /\ \A q \in DOMAIN fz :
                        /\ visits[j].exps[Rank(fz, q)] = Digit(fz, j - 1, q)
                        /\ visits[j].exps[Rank(fz, q)] \in 0..fz[q]
                  /\ visits[j].cf = ProductOfVector(fz, DOMAIN fz, visits[j].exps)
                  /\ odometer_step_exact(fz, ks, 1, visits[j].cf, visits[j].exps)
            /\ \A j, h \in 1..Len(visits) :
                  j # h => visits[j].exps # visits[h].exps
            /\ odometer_step(fz, ks, 1, last.cf, last.exps).cf = 1
            /\ result = {visits[j].cf : j \in 1..Len(visits)}

\* C18 witness: factors(12) has returned; its loop carried from 2^2 into 3
\* and reset both exponents at the end
C18_Witness ==
    /\ op = "factors"
    /\ arg = 12
    /\ outcome = "ok"
    /\ Cardinality(result) = 6

\* C19: for T of Width bits, whenever n >= 1 and the divisor sum of n are
\* both at most MaxT, no intermediate value of factor_sum(n) leaves the range
\* of T and the value returned is the divisor sum of n.  (A call ended by the
\* index panic of prime_factorization does not count against this formula:
\* only an overflow or a wrong sum does.)
C19_NoOverflowWhenSumFits ==
    (op = "factor_sum" /\ arg >= 1 /\ SumOf(Divisors(arg)) <= MaxT) =>
        /\ outcome # "overflow"
        /\ (outcome = "ok" => result = SumOf(Divisors(arg)))

====
